---- MODULE Spec2Model ----
(***************************************************************************)
(* Model of the modal dialog widget of gowid (widgets/dialog/dialog.go):   *)
(* construction (New), the splice protocol (Open / OpenExt / Close), the   *)
(* input routing (UserInput) and the Maximizer.                            *)
(*                                                                         *)
(* Every procedure of the source is an operator from a program state `s`   *)
(* (a record of the heap plus the trace of the running call) to the state  *)
(* after the call; an action runs one public call to completion.  A Go     *)
(* panic (nil interface call, failed type assertion) ends the run.         *)
(***************************************************************************)
EXTENDS Integers, Sequences, FiniteSets, TLC

VARIABLES dialogs, child, ovs, maximizer, panicked, last

vars == <<dialogs, child, ovs, maximizer, panicked, last>>

\* ------------------------------------------------------------------ bounds
MaxOverlays == 2   \* overlays alive at one time (OpenExt allocates one)
MaxButtons == 2    \* longest Buttons list handed to New

\* ------------------------------------------------------------ the universe
Nil == "nil"
Dialogs == {"d1", "d2"}
Containers == {"c1", "c2"}
OvNames == <<"ov1", "ov2", "ov3", "ov4", "ov5", "ov6">>
OvRefs == {OvNames[i] : i \in 1..MaxOverlays}

\* what each container holds before any dialog is opened
InitialChild == [c \in Containers |-> IF c = "c1" THEN "X" ELSE "Y"]

\* gowid.IWidgetDimension values used by the package
RenderFixed == "RenderFixed"
RenderFlow == "RenderFlow"
RenderWithWeight1 == "RenderWithWeight{1}"
RenderWithRatio1 == "RenderWithRatio{1.0}"
RenderWithRatioHalf == "RenderWithRatio{0.5}"

\* width.(gowid.IRenderFixed)
IsRenderFixed(dim) == dim = RenderFixed

Widths == {RenderFixed, RenderWithRatioHalf}
Heights == {RenderWithRatioHalf}

\* ------------------------------------------------------------------ events
KeyEsc == [kind |-> "key", key |-> "Esc", btn |-> 0]
KeyCtrlC == [kind |-> "key", key |-> "CtrlC", btn |-> 0]
KeyEnter == [kind |-> "key", key |-> "Enter", btn |-> 0]
Click(i) == [kind |-> "click", key |-> "", btn |-> i]
NoEvent == [kind |-> "none", key |-> "", btn |-> 0]
Events == {KeyEsc, KeyCtrlC, KeyEnter} \cup {Click(i) : i \in 1..MaxButtons}

\* ----------------------------------------------------------------- options
QuitFn == "QuitFn"
Actions == {Nil, QuitFn}

RECURSIVE SeqsUpTo(_, _)
SeqsUpTo(S, n) ==
  IF n = 0 THEN {<<>>}
  ELSE LET shorter == SeqsUpTo(S, n - 1)
       IN shorter \cup {Append(q, x) : q \in {r \in shorter : Len(r) = n - 1}, x \in S}

Button(action) == [Action |-> action]

Options(buttons, noShadow, noEscapeClose) ==
  [Buttons |-> buttons, NoShadow |-> noShadow, NoEscapeClose |-> noEscapeClose]

\* var opt Options (the zero value)
ZeroOptions == Options(<<>>, FALSE, FALSE)

Cancel == Button(Nil)
CloseD == Button(Nil)
OkCancel == <<Button(QuitFn), Cancel>>
CloseOnly == <<CloseD>>

AllButtonLists == {[i \in 1..Len(q) |-> Button(q[i])] : q \in SeqsUpTo(Actions, MaxButtons)}

\* the variadic opts of New: no Options, or one Options value
AllOpts ==
  {<<>>} \cup {<<Options(b, ns, ne)>> : b \in AllButtonLists, ns \in BOOLEAN, ne \in BOOLEAN}

PresetOpts ==
  {<<>>, <<Options(OkCancel, FALSE, FALSE)>>, <<Options(CloseOnly, TRUE, TRUE)>>}

\* --------------------------------------------------------------- the widget
Row(kind, widget, cols) == [kind |-> kind, widget |-> widget, cols |-> cols]

\* the click callback New installs on button i: the closure over `res` when
\* the button has no action, the button's own action otherwise
ButtonCallback(b) == IF b.Action = Nil THEN "res.Close" ELSE b.Action

\* colsW: one click target per entry of opts[0].Buttons, in order
ColsW(opts) ==
  IF Len(opts) > 0
  THEN [i \in 1..Len(opts[1].Buttons) |-> ButtonCallback(opts[1].Buttons[i])]
  ELSE <<>>

\* a body that gets its divider and button row whatever the buttons
PileWAlwaysButtons(content, opts) ==
  <<Row("content", content, <<>>), Row("divider", Nil, <<>>), Row("columns", Nil, ColsW(opts))>>

\* pileW: the content wrapper, then divider and button row iff len(colsW) > 0
PileW(content, opts) ==
  LET colsW == ColsW(opts)
      wrapper == Row("content", content, <<>>)
  IN IF Len(colsW) > 0
     THEN <<wrapper, Row("divider", Nil, <<>>), Row("columns", Nil, colsW)>>
     ELSE <<wrapper>>

\* closures that captured `res` by value, before New assigned it
ResBindingUnset(self) == Nil

\* the value the closures of the default buttons find in `res` when clicked
ResBinding(self) == self

\* New(content, opts...): the Widget allocated at address `self`
New(self, content, opts) ==
  LET opt == IF Len(opts) > 0 THEN opts[1] ELSE ZeroOptions
  IN [built |-> TRUE,
      IWidget |-> [shadow |-> ~opt.NoShadow, pile |-> PileW(content, opts)],
      Options |-> opt,
      savedSubWidgetWidget |-> Nil,
      savedContainer |-> Nil,
      contentWrapper |-> RenderWithWeight1,
      open |-> FALSE,
      res |-> ResBinding(self)]

\* a Widget slot New has not filled yet
NoWidget ==
  [built |-> FALSE,
   IWidget |-> [shadow |-> FALSE, pile |-> <<>>],
   Options |-> ZeroOptions,
   savedSubWidgetWidget |-> Nil,
   savedContainer |-> Nil,
   contentWrapper |-> Nil,
   open |-> FALSE,
   res |-> Nil]

\* the button row of a dialog body (empty when the body has none)
ButtonRow(w) ==
  LET rows == {i \in 1..Len(w.IWidget.pile) : w.IWidget.pile[i].kind = "columns"}
  IN IF rows = {} THEN <<>> ELSE w.IWidget.pile[CHOOSE i \in rows : TRUE].cols

\* ------------------------------------------------------ the running program
\* the program state a call works on, with the trace of the call so far
Cur ==
  [dialogs |-> dialogs, child |-> child, ovs |-> ovs, maximizer |-> maximizer,
   log |-> <<>>, ret |-> "none", fwd |-> "none", panicked |-> FALSE]

Bool(b) == IF b THEN "true" ELSE "false"

\* a run-time panic: the call stops, nothing after it runs
Panic(s) == [s EXCEPT !.panicked = TRUE, !.ret = "panic"]

Entry(what, d, s) == [what |-> what, d |-> d, child |-> s.child]

Note(s, what, d) == [s EXCEPT !.log = Append(@, Entry(what, d, s))]

\* gowid.RunWidgetCallbacks(w.Callbacks, key, app, w): the observers of `key`
RunWidgetCallbacks(s, d, key) == Note(s, key, d)

\* container.SetSubWidget(w, app)
SetSubWidget(s, c, w) == Note([s EXCEPT !.child[c] = w], "SetSubWidget", c)

IsOverlay(w) == w \in OvRefs

\* overlay.New(top, bottom, VAlignMiddle, height, HAlignMiddle, width)
OverlayNew(top, bottom, height, width) ==
  [top |-> top, bottom |-> bottom, height |-> height, width |-> width]

\* an overlay address that holds no overlay
NoOverlay == OverlayNew(Nil, Nil, Nil, Nil)

\* the address the allocator hands out next
FreeRefs(s) == {r \in OvRefs : s.ovs[r] = NoOverlay}
NewRef(s) == OvNames[CHOOSE i \in 1..MaxOverlays :
                       /\ OvNames[i] \in FreeRefs(s)
                       /\ \A j \in 1..(i - 1) : OvNames[j] \notin FreeRefs(s)]

\* the widgets the program can still reach: the containers' children, the
\* dialogs' saved children and the bottom layers beneath them
RECURSIVE Reach(_, _)
Reach(s, seen) ==
  LET more == {s.ovs[r].bottom : r \in seen \cap OvRefs} \ seen
  IN IF more = {} THEN seen ELSE Reach(s, seen \cup more)

Reachable(s) ==
  Reach(s, {s.child[c] : c \in Containers}
           \cup {s.dialogs[d].savedSubWidgetWidget : d \in Dialogs})

\* the garbage collector: an overlay nothing refers to gives its address back
Collect(s) ==
  [s EXCEPT !.ovs = [r \in OvRefs |-> IF r \in Reachable(s) THEN s.ovs[r] ELSE NoOverlay]]

\* ------------------------------------------------------- (*Widget) methods
\* the option read without its negation
EscapeClosesInverted(s, d) == s.dialogs[d].Options.NoEscapeClose

EscapeCloses(s, d) == ~s.dialogs[d].Options.NoEscapeClose

IsOpen(s, d) == s.dialogs[d].open

\* a SetOpen that notifies on every call
SetOpenFiresAlways(prevOpen, open) == TRUE

SetOpenFires(prevOpen, open) == prevOpen # open

SetOpen(s, d, open) ==
  LET prevOpen == s.dialogs[d].open
      s1 == [s EXCEPT !.dialogs[d].open = open]
  IN IF SetOpenFires(prevOpen, open) THEN RunWidgetCallbacks(s1, d, "OpenCloseCB") ELSE s1

SavedSubWidget(s, d) == s.dialogs[d].savedSubWidgetWidget

SetSavedSubWidget(s, d, w2) ==
  RunWidgetCallbacks([s EXCEPT !.dialogs[d].savedSubWidgetWidget = w2], d, "SavedSubWidget")

SavedContainer(s, d) == s.dialogs[d].savedContainer

\* a setter that notifies its observers but forgets the assignment
SetSavedContainerForgets(s, d, c) == [s EXCEPT !.log = Append(@, [what |-> "SavedContainer", d |-> d, child |-> s.child])]

SetSavedContainer(s, d, c) ==
  RunWidgetCallbacks([s EXCEPT !.dialogs[d].savedContainer = c], d, "SavedContainer")

SetContentWidth(s, d, dim) == [s EXCEPT !.dialogs[d].contentWrapper = dim]

\* w.SavedContainer().SubWidget().(*overlay.Widget): the overlay the four
\* accessors reach, Nil when the expression panics (nil container, or the
\* container's child is not an overlay)
LiveOverlay(s, d) ==
  IF d = Nil \/ SavedContainer(s, d) = Nil THEN Nil
  ELSE IF IsOverlay(s.child[SavedContainer(s, d)]) THEN s.child[SavedContainer(s, d)]
  ELSE Nil

Width(s, d) == s.ovs[LiveOverlay(s, d)].width

Height(s, d) == s.ovs[LiveOverlay(s, d)].height

SetWidth(s, d, dim) ==
  IF s.panicked THEN s
  ELSE IF LiveOverlay(s, d) = Nil THEN Panic(s)
  ELSE [s EXCEPT !.ovs[LiveOverlay(s, d)].width = dim]

SetHeight(s, d, dim) ==
  IF s.panicked THEN s
  ELSE IF LiveOverlay(s, d) = Nil THEN Panic(s)
  ELSE [s EXCEPT !.ovs[LiveOverlay(s, d)].height = dim]

\* ------------------------------------------------------ Close, Open, OpenExt
\* a Close that writes back what the container holds now
CloseRestoresKeepsChild(s, d) == s.child[s.dialogs[d].savedContainer]

\* the widget Close writes back into the saved container
CloseRestores(s, d) == SavedSubWidget(s, d)

\* Close(w, app); w is Nil when a nil *Widget is closed
\* a Close that clears the flag before it restores the child
CloseNotifiesFirst(s, d) ==
  IF s.panicked THEN s
  ELSE IF d = Nil \/ SavedContainer(s, d) = Nil THEN Panic(s)
  ELSE SetSubWidget(SetOpen(s, d, FALSE), SavedContainer(s, d), CloseRestores(s, d))

Close(s, d) ==
  IF s.panicked THEN s
  ELSE IF d = Nil \/ SavedContainer(s, d) = Nil THEN Panic(s)
  ELSE SetOpen(SetSubWidget(s, SavedContainer(s, d), CloseRestores(s, d)), d, FALSE)

\* the content sizing OpenExt chooses for a width policy
\* a sizing that ignores the width policy
ContentWidthAlwaysWeighted(width) == RenderWithWeight1

ContentWidthFor(width) == IF IsRenderFixed(width) THEN RenderFixed ELSE RenderWithWeight1

\* an OpenExt that records the child only when the dialog is not open yet
OpenExtSavesOnce(s, d, container, width, height) ==
  LET ov == NewRef(s)
      s1 == [s EXCEPT !.ovs[ov] = OverlayNew(d, s.child[container], height, width)]
      s2 == SetContentWidth(s1, d, ContentWidthFor(width))
      s3 == IF s2.dialogs[d].open THEN RunWidgetCallbacks(s2, d, "SavedSubWidget")
            ELSE SetSavedSubWidget(s2, d, s2.child[container])
      s4 == SetSavedContainer(s3, d, container)
      s5 == SetSubWidget(s4, container, ov)
  IN SetOpen(s5, d, TRUE)

\* an OpenExt that installs the overlay before it reads the child to save
OpenExtSavesAfterInstall(s, d, container, width, height) ==
  LET ov == NewRef(s)
      s1 == [s EXCEPT !.ovs[ov] = OverlayNew(d, s.child[container], height, width)]
      s2 == SetContentWidth(s1, d, ContentWidthFor(width))
      s3 == SetSubWidget(s2, container, ov)
      s4 == SetSavedSubWidget(s3, d, s3.child[container])
      s5 == SetSavedContainer(s4, d, container)
  IN SetOpen(s5, d, TRUE)

OpenExt(s, d, container, width, height) ==
  LET ov == NewRef(s)
      s1 == [s EXCEPT !.ovs[ov] = OverlayNew(d, s.child[container], height, width)]
      s2 == SetContentWidth(s1, d, ContentWidthFor(width))
      s3 == SetSavedSubWidget(s2, d, s2.child[container])
      s4 == SetSavedContainer(s3, d, container)
      s5 == SetSubWidget(s4, container, ov)
  IN SetOpen(s5, d, TRUE)

\* an Open that hands the width policy on as the height policy
OpenHeightFromWidth(s, d, container, width) == OpenExt(s, d, container, width, width)

Open(s, d, container, width) == OpenExt(s, d, container, width, RenderFlow)

\* -------------------------------------------------------------- UserInput
\* GetNoFunction().Changed(app, w)
NoFunction(s, d) == Close(s, d)

\* what a click callback of the dialog body does
RunCallback(s, d, cb) ==
  IF cb = "res.Close" THEN Close(s, s.dialogs[d].res) ELSE Note(s, cb, d)

\* gowid.UserInputIfSelectable(w.SubWidget(), ev, size, focus, app): the event
\* goes to the dialog body; a click on button i runs its callback and is
\* handled, any other event gets the answer `body` of the body
UserInputIfSelectable(s, d, ev, body) ==
  LET s1 == Note(s, "forward", d)
      row == ButtonRow(s.dialogs[d])
  IN IF ev.kind = "click" /\ ev.btn \in 1..Len(row)
     THEN LET s2 == RunCallback(s1, d, row[ev.btn])
          IN IF s2.panicked THEN s2 ELSE [s2 EXCEPT !.fwd = "true"]
     ELSE [s1 EXCEPT !.fwd = Bool(body)]

\* a test that takes every key for a cancel gesture
IsCancelGestureAnyKey(ev) == ev.kind = "key"

IsCancelGesture(ev) == ev.kind = "key" /\ ev.key \in {"CtrlC", "Esc"}

\* an open dialog that hands the body's answer back
OpenResultFromBody(fwd) == fwd

\* the value UserInput returns for an open dialog
OpenResult(fwd) == "true"

UserInput(s, d, ev, body) ==
  IF IsOpen(s, d)
  THEN LET s1 == IF IsCancelGesture(ev) /\ EscapeCloses(s, d)
                 THEN NoFunction(s, d)
                 ELSE UserInputIfSelectable(s, d, ev, body)
       IN IF s1.panicked THEN s1 ELSE [s1 EXCEPT !.ret = OpenResult(s1.fwd)]
  ELSE LET s1 == UserInputIfSelectable(s, d, ev, body)
       IN IF s1.panicked THEN s1 ELSE [s1 EXCEPT !.ret = s1.fwd]

\* -------------------------------------------------------------- Maximizer
NoMaximizer == [Maxed |-> FALSE, Width |-> Nil, Height |-> Nil]

\* a Maximize without its guard
MaximizeNeverRefused(m) == FALSE

\* the guard of Maximize: the call is refused
MaximizeRefused(m) == m.Maxed

Maximize(s, d) ==
  IF MaximizeRefused(s.maximizer) THEN [s EXCEPT !.ret = "false"]
  ELSE IF LiveOverlay(s, d) = Nil THEN Panic(s)
  ELSE LET s1 == [s EXCEPT !.maximizer.Width = Width(s, d), !.maximizer.Height = Height(s, d)]
           s2 == SetHeight(SetWidth(s1, d, RenderWithRatio1), d, RenderWithRatio1)
       IN [s2 EXCEPT !.maximizer.Maxed = TRUE, !.ret = "true"]

\* the policies Unmaximize writes back
UnmaximizeWidth(m) == m.Width
\* the saved width written back as the height
UnmaximizeHeightFromWidth(m) == m.Width

UnmaximizeHeight(m) == m.Height

Unmaximize(s, d) ==
  IF ~s.maximizer.Maxed THEN [s EXCEPT !.ret = "false"]
  ELSE IF LiveOverlay(s, d) = Nil THEN Panic(s)
  ELSE LET s2 == SetHeight(SetWidth(s, d, UnmaximizeWidth(s.maximizer)), d,
                           UnmaximizeHeight(s.maximizer))
       IN [s2 EXCEPT !.maximizer.Maxed = FALSE, !.ret = "true"]

\* ---------------------------------------------------------------- actions
\* the container a call addresses: its argument, else the dialog's saved one
Addressed(d, c) == IF c # Nil THEN c ELSE IF d = Nil THEN Nil ELSE dialogs[d].savedContainer

\* what is recorded of a call: its arguments, what it found and what it did
\*   after   the call made just before this one, when on the same dialog
\*   prior   the child of the addressed container when the call began
\*   w0, h0  the policies of the live overlay when a Maximizer call began
Call(op, d, c, ev, s) ==
  [op |-> op, d |-> d, c |-> c, ev |-> ev,
   after |-> IF last.d = d THEN last.op ELSE "other",
   wasOpen |-> dialogs[d].open,
   prior |-> IF Addressed(d, c) = Nil THEN Nil ELSE child[Addressed(d, c)],
   w0 |-> IF op \in {"Maximize", "Unmaximize"} /\ LiveOverlay(Cur, d) # Nil
          THEN Width(Cur, d) ELSE Nil,
   h0 |-> IF op \in {"Maximize", "Unmaximize"} /\ LiveOverlay(Cur, d) # Nil
          THEN Height(Cur, d) ELSE Nil,
   ret |-> s.ret, fwd |-> s.fwd, log |-> s.log]

NoCall ==
  [op |-> "none", d |-> Nil, c |-> Nil, ev |-> NoEvent, after |-> "other",
   wasOpen |-> FALSE, prior |-> Nil, w0 |-> Nil, h0 |-> Nil,
   ret |-> "none", fwd |-> "none", log |-> <<>>]

\* the call ran from Cur to s
Commit(op, d, c, ev, s) ==
  /\ dialogs' = s.dialogs
  /\ child' = s.child
  /\ ovs' = Collect(s).ovs
  /\ maximizer' = s.maximizer
  /\ panicked' = s.panicked
  /\ last' = Call(op, d, c, ev, s)

Init ==
  /\ dialogs = [d \in Dialogs |-> NoWidget]
  /\ child = InitialChild
  /\ ovs = [r \in OvRefs |-> NoOverlay]
  /\ maximizer = NoMaximizer
  /\ panicked = FALSE
  /\ last = NoCall

CallNew(d, opts) ==
  /\ ~panicked
  /\ ~dialogs[d].built
  /\ Commit("New", d, Nil, NoEvent, [Cur EXCEPT !.dialogs[d] = New(d, "content", opts)])

CallOpen(d, c, width) ==
  /\ ~panicked
  /\ dialogs[d].built
  /\ FreeRefs(Cur) # {}
  /\ Commit("Open", d, c, NoEvent, Open(Cur, d, c, width))

CallOpenExt(d, c, width, height) ==
  /\ ~panicked
  /\ dialogs[d].built
  /\ FreeRefs(Cur) # {}
  /\ Commit("OpenExt", d, c, NoEvent, OpenExt(Cur, d, c, width, height))

CallClose(d) ==
  /\ ~panicked
  /\ dialogs[d].built
  /\ Commit("Close", d, Nil, NoEvent, Close(Cur, d))

CallSetOpen(d, open) ==
  /\ ~panicked
  /\ dialogs[d].built
  /\ Commit("SetOpen", d, Nil, NoEvent, SetOpen(Cur, d, open))

CallUserInput(d, ev, body) ==
  /\ ~panicked
  /\ dialogs[d].built
  /\ Commit("UserInput", d, Nil, ev, UserInput(Cur, d, ev, body))

CallMaximize(d) ==
  /\ ~panicked
  /\ dialogs[d].built
  /\ Commit("Maximize", d, Nil, NoEvent, Maximize(Cur, d))

CallUnmaximize(d) ==
  /\ ~panicked
  /\ dialogs[d].built
  /\ Commit("Unmaximize", d, Nil, NoEvent, Unmaximize(Cur, d))

\* One dialog driven through its whole interface (New, Open, OpenExt, Close,
\* SetOpen, UserInput) over two containers.
Next ==
  \/ \E opts \in PresetOpts : CallNew("d1", opts)
  \/ \E c \in Containers, width \in Widths : CallOpen("d1", c, width)
  \/ \E c \in Containers, width \in Widths, height \in Heights :
       CallOpenExt("d1", c, width, height)
  \/ CallClose("d1")
  \/ \E open \in BOOLEAN : CallSetOpen("d1", open)
  \/ \E ev \in Events, body \in BOOLEAN : CallUserInput("d1", ev, body)

Spec == Init /\ [][Next]_vars

\* One dialog and the Maximizer.
NextMax ==
  \/ CallNew("d1", <<>>)
  \/ \E c \in Containers, width \in Widths : CallOpen("d1", c, width)
  \/ \E c \in Containers, width \in Widths, height \in Heights :
       CallOpenExt("d1", c, width, height)
  \/ CallClose("d1")
  \/ CallMaximize("d1")
  \/ CallUnmaximize("d1")

SpecMax == Init /\ [][NextMax]_vars

\* One dialog built from every Options value, opened, clicked and closed.
NextNew ==
  \/ \E opts \in AllOpts : CallNew("d1", opts)
  \/ \E width \in Widths : CallOpen("d1", "c1", width)
  \/ CallClose("d1")
  \/ \E ev \in Events, body \in BOOLEAN : CallUserInput("d1", ev, body)

SpecNew == Init /\ [][NextNew]_vars

\* Two dialogs on the containers they may share, used as documented: a dialog
\* is opened only while closed and closed only while open, in any order.
NextMulti ==
  \/ \E d \in Dialogs : CallNew(d, <<>>)
  \/ \E d \in Dialogs, c \in Containers, width \in Widths :
       ~dialogs[d].open /\ CallOpen(d, c, width)
  \/ \E d \in Dialogs : dialogs[d].open /\ CallClose(d)

SpecMulti == Init /\ [][NextMulti]_vars

\* One dialog and the Maximizer, used as documented: the dialog is opened only
\* while closed, and closed, maximized and unmaximized only while open.
NextMaxUse ==
  \/ CallNew("d1", <<>>)
  \/ \E c \in Containers, width \in Widths : ~dialogs["d1"].open /\ CallOpen("d1", c, width)
  \/ \E c \in Containers, width \in Widths, height \in Heights :
       ~dialogs["d1"].open /\ CallOpenExt("d1", c, width, height)
  \/ dialogs["d1"].open /\ CallClose("d1")
  \/ dialogs["d1"].open /\ CallMaximize("d1")
  \/ dialogs["d1"].open /\ CallUnmaximize("d1")

SpecMaxUse == Init /\ [][NextMaxUse]_vars

\* ------------------------------------------------------------ properties
OpenOps == {"Open", "OpenExt"}

\* the open/close observer notifications of one call
Fires(log) == Cardinality({i \in 1..Len(log) : log[i].what = "OpenCloseCB"})

Logged(log, what) == \E i \in 1..Len(log) : log[i].what = what

\* C1: Open (or OpenExt) of a closed dialog d on a container C, with any
\* width policy, followed directly by Close(d), leaves in C exactly the widget
\* C held before the Open, and leaves d closed.
C1_OpenCloseRestores ==
  [][(/\ last.op \in OpenOps
      /\ ~last.wasOpen
      /\ last'.op = "Close"
      /\ last'.d = last.d)
     => (/\ ~panicked'
         /\ child'[last.c] = last.prior
         /\ ~dialogs'[last.d].open)]_vars

\* a Close made right after an Open of c2 has put Y back and closed the dialog
C1_Witness ==
  /\ last.op = "Close"
  /\ last.after = "Open"
  /\ last.wasOpen
  /\ last.prior \in OvRefs
  /\ dialogs[last.d].savedContainer = "c2"
  /\ child["c2"] = "Y"
  /\ ~dialogs[last.d].open

\* C2 (as claimed): a dialog is open iff its saved container is non-nil iff
\* its saved child is non-nil.
C2_OpenIffSaved ==
  \A d \in Dialogs :
    dialogs[d].built =>
      /\ dialogs[d].open <=> dialogs[d].savedContainer # Nil
      /\ dialogs[d].savedContainer # Nil <=> dialogs[d].savedSubWidgetWidget # Nil

\* C2 (amended): the saved container is non-nil iff the saved child is; both
\* are nil in a new dialog, only Open/OpenExt change them, after Open/OpenExt
\* both are non-nil, and Close and SetOpen keep them as they are; so a dialog
\* opened by Open/OpenExt holds both while it is open, and the open flag alone
\* says nothing about them.
C2_SavedSetByOpenOnly ==
  /\ [](\A d \in Dialogs :
          /\ dialogs[d].savedContainer # Nil <=> dialogs[d].savedSubWidgetWidget # Nil
          /\ (last.op = "New" /\ last.d = d) =>
               dialogs[d].savedContainer = Nil /\ ~dialogs[d].open
          /\ (last.op \in OpenOps /\ last.d = d) =>
               /\ dialogs[d].open
               /\ dialogs[d].savedContainer = last.c
               /\ dialogs[d].savedSubWidgetWidget = last.prior
               /\ last.prior # Nil)
  /\ [][\A d \in Dialogs :
          (\/ dialogs'[d].savedContainer # dialogs[d].savedContainer
           \/ dialogs'[d].savedSubWidgetWidget # dialogs[d].savedSubWidgetWidget)
          => (last'.op \in OpenOps /\ last'.d = d)]_vars

\* a dialog closed by Close still holds the container and the child it saved
C2_Witness ==
  /\ last.op = "Close"
  /\ ~panicked
  /\ ~dialogs[last.d].open
  /\ dialogs[last.d].savedContainer = "c1"
  /\ dialogs[last.d].savedSubWidgetWidget = "X"

\* C3: a UserInput call that returns gives true when the dialog was open at
\* the call, whatever the body answered and also when the event closed the
\* dialog; when the dialog was closed it gives the result of forwarding the
\* event to the body.
C3_UserInputResult ==
  (last.op = "UserInput" /\ last.ret # "panic") =>
    IF last.wasOpen THEN last.ret = "true" ELSE last.ret = last.fwd /\ last.fwd # "none"

\* an open dialog whose body refused the event still reports it handled
C3_Witness ==
  /\ last.op = "UserInput"
  /\ last.wasOpen
  /\ last.fwd = "false"
  /\ last.ret = "true"

CancelKeys == {KeyEsc, KeyCtrlC}

\* the event is a click on a button that New was given without an action
ClicksDefaultButton(w, ev) ==
  /\ ev.kind = "click"
  /\ ev.btn \in 1..Len(w.Options.Buttons)
  /\ w.Options.Buttons[ev.btn].Action = Nil

\* C4: an Escape or Ctrl-C key sent to an open dialog is, when NoEscapeClose
\* is false, not forwarded to the body: the close action runs, and for a
\* dialog that was opened into a container it puts the saved child back and
\* leaves the dialog closed; when NoEscapeClose is true the key is forwarded
\* to the body, the dialog stays open and no container's child changes.
C4_CancelGesture ==
  [][(/\ last'.op = "UserInput"
      /\ dialogs[last'.d].open
      /\ last'.ev \in CancelKeys)
     => LET w == dialogs[last'.d]
        IN IF ~w.Options.NoEscapeClose
           THEN /\ ~Logged(last'.log, "forward")
                /\ w.savedContainer # Nil =>
                     /\ ~panicked'
                     /\ Logged(last'.log, "SetSubWidget")
                     /\ child'[w.savedContainer] = w.savedSubWidgetWidget
                     /\ ~dialogs'[last'.d].open
           ELSE /\ Logged(last'.log, "forward")
                /\ ~panicked'
                /\ dialogs'[last'.d].open
                /\ child' = child]_vars

\* Escape closed an open dialog: c1 holds X again in place of the overlay
C4_Witness ==
  /\ last.op = "UserInput"
  /\ last.ev = KeyEsc
  /\ last.wasOpen
  /\ last.prior \in OvRefs
  /\ ~Logged(last.log, "forward")
  /\ ~dialogs[last.d].open
  /\ dialogs[last.d].savedContainer = "c1"
  /\ child["c1"] = "X"

\* C5: a dialog is closed when New returns and when a Close returns, open
\* when Open or OpenExt returns, and a dialog that is open stays open across
\* every UserInput whose event is neither a cancel key with EscapeCloses()
\* true nor a click on a button without an action.
C5_IsOpen ==
  LET w == dialogs[last.d]
  IN /\ last.op = "New" => ~w.open
     /\ (last.op = "Close" /\ ~panicked) => ~w.open
     /\ last.op \in OpenOps => w.open
     /\ (/\ last.op = "UserInput"
         /\ last.wasOpen
         /\ ~(last.ev \in CancelKeys /\ ~w.Options.NoEscapeClose)
         /\ ~ClicksDefaultButton(w, last.ev))
        => w.open /\ ~panicked

\* a second key in a row went to an open dialog, which is still open
C5_Witness ==
  /\ last.op = "UserInput"
  /\ last.after = "UserInput"
  /\ last.ev = KeyEnter
  /\ last.wasOpen
  /\ dialogs[last.d].open

\* C6: every call notifies the open/close observers of a dialog once if it
\* changed that dialog's open flag and not at all if it did not; an Open of a
\* closed dialog and the Close that follows notify twice together.
C6_FiresOncePerChange ==
  [][/\ \A d \in Dialogs :
          Cardinality({i \in 1..Len(last'.log) :
                         last'.log[i].what = "OpenCloseCB" /\ last'.log[i].d = d})
            = IF dialogs'[d].open # dialogs[d].open THEN 1 ELSE 0
     /\ (/\ last.op \in OpenOps
         /\ ~last.wasOpen
         /\ last'.op = "Close"
         /\ last'.d = last.d)
        => Fires(last.log) + Fires(last'.log) = 2]_vars

\* SetOpen(true) on a dialog that SetOpen had already opened notified nobody
C6_Witness ==
  /\ last.op = "SetOpen"
  /\ last.after = "SetOpen"
  /\ last.wasOpen
  /\ dialogs[last.d].open
  /\ Fires(last.log) = 0

\* the overlay in the saved container of dialog d after the step
LiveAfter(d) == ovs'[child'[dialogs'[d].savedContainer]]

\* C7: Maximize on an open dialog with Maxed false returns true and sets the
\* width and the height of the dialog's live overlay to ratio 1.0; the
\* Unmaximize that follows returns true, gives the overlay the width and the
\* height it had before the Maximize, and leaves Maxed false.
C7_MaximizeUnmaximize ==
  [][/\ (/\ last'.op = "Maximize"
         /\ dialogs[last'.d].open
         /\ ~maximizer.Maxed)
        => /\ last'.ret = "true"
           /\ maximizer'.Maxed
           /\ LiveAfter(last'.d).width = RenderWithRatio1
           /\ LiveAfter(last'.d).height = RenderWithRatio1
     /\ (/\ last.op = "Maximize"
         /\ last.wasOpen
         /\ last.ret = "true"
         /\ last'.op = "Unmaximize"
         /\ last'.d = last.d)
        => /\ last'.ret = "true"
           /\ ~maximizer'.Maxed
           /\ LiveAfter(last'.d).width = last.w0
           /\ LiveAfter(last'.d).height = last.h0]_vars

\* Unmaximize right after Maximize gave a fixed-width, flow-height overlay
\* its policies back
C7_Witness ==
  /\ last.op = "Unmaximize"
  /\ last.after = "Maximize"
  /\ last.ret = "true"
  /\ last.wasOpen
  /\ last.w0 = RenderWithRatio1
  /\ last.h0 = RenderWithRatio1
  /\ ~maximizer.Maxed
  /\ ovs[child[dialogs[last.d].savedContainer]].width = RenderFixed
  /\ ovs[child[dialogs[last.d].savedContainer]].height = RenderFlow

\* C8: Maximize with Maxed true returns false and changes nothing, neither
\* the Width and Height the Maximizer saved nor any overlay; Unmaximize with
\* Maxed false returns false and changes nothing.
C8_RefusedCallsChangeNothing ==
  [][/\ (last'.op = "Maximize" /\ maximizer.Maxed)
        => /\ last'.ret = "false"
           /\ UNCHANGED <<dialogs, child, ovs, maximizer, panicked>>
     /\ (last'.op = "Unmaximize" /\ ~maximizer.Maxed)
        => /\ last'.ret = "false"
           /\ UNCHANGED <<dialogs, child, ovs, maximizer, panicked>>]_vars

\* a second Maximize in a row was refused: the overlay is at ratio 1.0 and the
\* Maximizer still holds the fixed width saved by the first
C8_Witness ==
  /\ last.op = "Maximize"
  /\ last.after = "Maximize"
  /\ last.ret = "false"
  /\ last.w0 = RenderWithRatio1
  /\ maximizer.Maxed
  /\ maximizer.Width = RenderFixed

\* C9: a click on a button of an open dialog closes that dialog when the
\* button was given without an action (Close ran on the dialog New returned:
\* the saved child is back in the container, the dialog is closed, nothing
\* panicked), and runs the button's action, leaving the dialog open and the
\* container as it was, when the button was given with one.
C9_DefaultButtonCloses ==
  LET w == dialogs[last.d]
  IN (/\ last.op = "UserInput"
      /\ last.wasOpen
      /\ last.ev.kind = "click"
      /\ last.ev.btn \in 1..Len(w.Options.Buttons))
     => IF w.Options.Buttons[last.ev.btn].Action = Nil
        THEN /\ ~panicked
             /\ ~w.open
             /\ Logged(last.log, "SetSubWidget")
             /\ child[w.savedContainer] = w.savedSubWidgetWidget
             /\ last.prior \in OvRefs
        ELSE /\ ~panicked
             /\ w.open
             /\ Logged(last.log, w.Options.Buttons[last.ev.btn].Action)
             /\ ~Logged(last.log, "SetSubWidget")
             /\ child[w.savedContainer] = last.prior

\* the second button of an (action, no action) pair was clicked and closed
\* the dialog
C9_Witness ==
  /\ last.op = "UserInput"
  /\ last.wasOpen
  /\ last.ev = Click(2)
  /\ dialogs[last.d].Options.Buttons = <<Button(QuitFn), Button(Nil)>>
  /\ ~dialogs[last.d].open
  /\ child["c1"] = "X"

\* C10: the body New builds is the content row alone when it got no buttons
\* (no Options, or an empty Buttons list), and the content row, one divider
\* and one button row with one click target per button, in the order of the
\* Buttons list, when it got N >= 1 buttons.
C10_BodyShape ==
  \A d \in Dialogs :
    dialogs[d].built =>
      LET pile == dialogs[d].IWidget.pile
          buttons == dialogs[d].Options.Buttons
      IN IF Len(buttons) = 0
         THEN Len(pile) = 1 /\ pile[1].kind = "content"
         ELSE /\ Len(pile) = 3
              /\ pile[1].kind = "content"
              /\ pile[2].kind = "divider"
              /\ pile[3].kind = "columns"
              /\ Len(pile[3].cols) = Len(buttons)
              /\ \A i \in 1..Len(buttons) :
                   pile[3].cols[i] = IF buttons[i].Action = Nil THEN "res.Close"
                                     ELSE buttons[i].Action

\* New was given (no action, action) and built a row of two targets
C10_Witness ==
  /\ last.op = "New"
  /\ dialogs[last.d].Options.Buttons = <<Button(Nil), Button(QuitFn)>>
  /\ Len(dialogs[last.d].IWidget.pile) = 3
  /\ dialogs[last.d].IWidget.pile[3].cols = <<"res.Close", QuitFn>>

\* C11: a second Open (or OpenExt) of the same dialog on the same container,
\* with no Close between, saves as the dialog's child the overlay the first
\* Open installed, notifies no open/close observer, and leaves the original
\* child X in no field of the dialog; the Close that follows puts that overlay,
\* not X, into the container.
C11_DoubleOpenLosesChild ==
  [][/\ (/\ last.op \in OpenOps
         /\ last'.op \in OpenOps
         /\ last'.d = last.d
         /\ last'.c = last.c)
        => LET w == dialogs'[last.d]
           IN /\ child[last.c] \in OvRefs
              /\ ovs[child[last.c]].top = last.d
              /\ w.savedSubWidgetWidget = child[last.c]
              /\ w.savedSubWidgetWidget # last.prior
              /\ w.savedContainer = last.c
              /\ w.open
              /\ Fires(last'.log) = 0
     /\ (/\ last.op \in OpenOps
         /\ last.wasOpen
         /\ last.prior \in OvRefs
         /\ ovs[last.prior].top = last.d
         /\ last'.op = "Close"
         /\ last'.d = last.d)
        => /\ ~panicked'
           /\ child'[last.c] = last.prior
           /\ child'[last.c] # ovs[last.prior].bottom
           /\ ~dialogs'[last.d].open]_vars

\* after Open, Open, Close on c1 the container holds the dialog's first
\* overlay, with X beneath it, and the dialog is closed
C11_Witness ==
  /\ last.op = "Close"
  /\ last.after = "Open"
  /\ last.wasOpen
  /\ ~dialogs[last.d].open
  /\ child["c1"] \in OvRefs
  /\ ovs[child["c1"]].top = last.d
  /\ ovs[child["c1"]].bottom = "X"
  /\ dialogs[last.d].savedSubWidgetWidget = child["c1"]

\* C12: Close on a dialog that is closed notifies no open/close observer and
\* leaves the dialog closed; nothing changes but the child of the saved
\* container, which gets the saved child, and with no saved container (a
\* dialog never opened) the attempt to write it panics.
C12_CloseWhenClosed ==
  [][(last'.op = "Close" /\ ~dialogs[last'.d].open)
     => LET w == dialogs[last'.d]
        IN /\ Fires(last'.log) = 0
           /\ ~dialogs'[last'.d].open
           /\ dialogs' = dialogs
           /\ maximizer' = maximizer
           /\ \A r \in OvRefs : ovs'[r] \in {ovs[r], NoOverlay}
           /\ IF w.savedContainer = Nil
              THEN panicked' /\ child' = child
              ELSE /\ ~panicked'
                   /\ child' = [child EXCEPT ![w.savedContainer] = w.savedSubWidgetWidget]]_vars

\* Close on a dialog that SetOpen(false) had closed put X back into c1 in
\* place of the overlay and notified nobody
C12_Witness ==
  /\ last.op = "Close"
  /\ last.after = "SetOpen"
  /\ ~last.wasOpen
  /\ last.prior \in OvRefs
  /\ dialogs[last.d].savedContainer = "c1"
  /\ child["c1"] = "X"
  /\ Fires(last.log) = 0
  /\ ~dialogs[last.d].open

\* what OpenExt(d, c, width, height) has to leave behind
Installed(d, c, width, height) ==
  /\ child'[c] \in OvRefs
  /\ ovs[child'[c]] = NoOverlay
  /\ child'[c] # child[c]
  /\ ovs'[child'[c]] = [top |-> d, bottom |-> child[c], height |-> height, width |-> width]
  /\ dialogs'[d].savedSubWidgetWidget = child[c]
  /\ dialogs'[d].savedContainer = c

\* C13: when OpenExt(d, C, width, height) returns, C holds a newly built
\* overlay with d on top, the child C held at the call beneath, and the width
\* and height policies of the call; d has saved that child and C; Open(d, C,
\* width) leaves the same with the flow height policy.
C13_OpenInstallsOverlay ==
  [][\A width \in Widths :
       /\ \A height \in Heights :
            (last'.op = "OpenExt" /\ CallOpenExt(last'.d, last'.c, width, height))
            => Installed(last'.d, last'.c, width, height)
       /\ (last'.op = "Open" /\ CallOpen(last'.d, last'.c, width))
          => Installed(last'.d, last'.c, width, RenderFlow)]_vars

\* Open on c2 with a ratio width built a flow-height overlay of the dialog
\* over Y
C13_Witness ==
  /\ last.op = "Open"
  /\ last.c = "c2"
  /\ child["c2"] \in OvRefs
  /\ ovs[child["c2"]] =
       [top |-> last.d, bottom |-> "Y", height |-> RenderFlow, width |-> RenderWithRatioHalf]
  /\ dialogs[last.d].savedSubWidgetWidget = "Y"
  /\ dialogs[last.d].savedContainer = "c2"

\* C14: in one Open or OpenExt the saved-child observers are notified first
\* and the saved-container observers second, both on every call and both
\* while the container still holds the prior child; then the container gets
\* the overlay, and only then, if the flag changed, the open/close observers
\* are notified.  In one Close the container gets its child back before the
\* open/close observers are notified.  An open/close observer always sees the
\* containers as the call leaves them.
C14_NotificationOrder ==
  LET log == last.log
  IN /\ last.op \in OpenOps =>
          /\ Len(log) = IF last.wasOpen THEN 3 ELSE 4
          /\ log[1].what = "SavedSubWidget" /\ log[1].child[last.c] = last.prior
          /\ log[2].what = "SavedContainer" /\ log[2].child[last.c] = last.prior
          /\ log[3].what = "SetSubWidget" /\ log[3].child = child
          /\ child[last.c] # last.prior
          /\ ~last.wasOpen => log[4].what = "OpenCloseCB"
     /\ (last.op = "Close" /\ ~panicked) =>
          /\ Len(log) = IF last.wasOpen THEN 2 ELSE 1
          /\ log[1].what = "SetSubWidget" /\ log[1].child = child
          /\ last.wasOpen => log[2].what = "OpenCloseCB"
     /\ \A i \in 1..Len(log) : log[i].what = "OpenCloseCB" => log[i].child = child

\* a Close of an open dialog restored X in c1 and then notified the
\* open/close observers, who saw X there
C14_Witness ==
  /\ last.op = "Close"
  /\ last.wasOpen
  /\ last.prior \in OvRefs
  /\ Len(last.log) = 2
  /\ last.log[2].what = "OpenCloseCB"
  /\ last.log[2].child["c1"] = "X"
  /\ dialogs[last.d].savedContainer = "c1"

\* C15: whenever a dialog is open, the child of its saved container is the
\* overlay that has this dialog on top (the overlay its Width, Height,
\* SetWidth and SetHeight reach is its own).
C15_OpenDialogOwnsLiveOverlay ==
  \A d \in Dialogs :
    dialogs[d].open =>
      /\ dialogs[d].savedContainer # Nil
      /\ child[dialogs[d].savedContainer] \in OvRefs
      /\ ovs[child[dialogs[d].savedContainer]].top = d

\* C16: every Open and OpenExt sets the sizing of the dialog's content
\* wrapper from the width policy of that call alone, to fixed iff the policy
\* is the fixed one and to weight 1 otherwise; Close, SetOpen and UserInput
\* leave it as it is.
C16_ContentSizing ==
  [][/\ \A width \in Widths :
          LET sized == dialogs'[last'.d].contentWrapper =
                         IF width = RenderFixed THEN RenderFixed ELSE RenderWithWeight1
          IN /\ \A height \in Heights :
                  (last'.op = "OpenExt" /\ CallOpenExt(last'.d, last'.c, width, height))
                  => sized
             /\ (last'.op = "Open" /\ CallOpen(last'.d, last'.c, width)) => sized
     /\ last'.op \in {"Close", "SetOpen", "UserInput"} =>
          \A d \in Dialogs : dialogs'[d].contentWrapper = dialogs[d].contentWrapper]_vars

\* a ratio-width Open over the dialog's own fixed-width overlay left the
\* content weighted
C16_Witness ==
  /\ last.op \in OpenOps
  /\ last.wasOpen
  /\ last.prior \in OvRefs
  /\ ovs[last.prior].top = last.d
  /\ ovs[last.prior].width = RenderFixed
  /\ ovs[child[last.c]].width = RenderWithRatioHalf
  /\ dialogs[last.d].contentWrapper = RenderWithWeight1

\* C17 (as claimed): after Open or OpenExt the container holds the overlay,
\* the dialog has saved the prior child, and the prior child cannot be reached
\* from the container's child through the widget tree.
C17_PriorOnlyInSavedChild ==
  last.op \in OpenOps =>
    /\ child[last.c] \in OvRefs
    /\ dialogs[last.d].savedSubWidgetWidget = last.prior
    /\ last.prior \notin Reach(Cur, {child[last.c]})

\* C17 (amended): after Open or OpenExt the container holds the overlay and
\* no longer the prior child; the prior child is kept in two places, the
\* dialog's saved child and the bottom layer of the overlay, so it is still
\* reached from the container's child.
C17_PriorSavedAndBeneath ==
  last.op \in OpenOps =>
    /\ child[last.c] \in OvRefs
    /\ child[last.c] # last.prior
    /\ dialogs[last.d].savedSubWidgetWidget = last.prior
    /\ ovs[child[last.c]].bottom = last.prior
    /\ last.prior \in Reach(Cur, {child[last.c]})

\* OpenExt on c1: X is the dialog's saved child and lies beneath the overlay
C17_Witness ==
  /\ last.op = "OpenExt"
  /\ last.c = "c1"
  /\ last.prior = "X"
  /\ child["c1"] \in OvRefs
  /\ ovs[child["c1"]].bottom = "X"
  /\ dialogs[last.d].savedSubWidgetWidget = "X"

\* dialog B lies over dialog A on container c: c holds the overlay of B, its
\* bottom layer is the overlay of A, which B saved, and A saved what lies
\* beneath its own overlay
Stacked(A, B, c) ==
  /\ A # B
  /\ dialogs[A].open /\ dialogs[B].open
  /\ dialogs[A].savedContainer = c /\ dialogs[B].savedContainer = c
  /\ child[c] \in OvRefs
  /\ ovs[child[c]].top = B
  /\ ovs[child[c]].bottom = dialogs[B].savedSubWidgetWidget
  /\ dialogs[B].savedSubWidgetWidget \in OvRefs
  /\ ovs[dialogs[B].savedSubWidgetWidget].top = A
  /\ ovs[dialogs[B].savedSubWidgetWidget].bottom = dialogs[A].savedSubWidgetWidget

\* B has just been closed from over A: c holds the overlay of A again
Unstacked(A, B, c) ==
  /\ A # B
  /\ last.op = "Close" /\ last.d = B /\ last.wasOpen
  /\ dialogs[A].open /\ ~dialogs[B].open
  /\ dialogs[A].savedContainer = c /\ dialogs[B].savedContainer = c
  /\ child[c] = dialogs[B].savedSubWidgetWidget
  /\ child[c] \in OvRefs
  /\ ovs[child[c]].top = A
  /\ ovs[child[c]].bottom = dialogs[A].savedSubWidgetWidget

\* C18: for two dialogs A and B and a container C holding X, Open(A, C) and
\* Open(B, C) on closed dialogs stack B over A with X saved by A; Close(B)
\* then leaves in C exactly the overlay A installed, unchanged, with A open;
\* Close(A) then leaves in C exactly X with both dialogs closed.
C18_NestedOpenClose ==
  [][\A A \in Dialogs, B \in Dialogs, c \in Containers :
       /\ (/\ last.op = "Open" /\ last.d = A /\ last.c = c /\ ~last.wasOpen
           /\ ~dialogs[B].open
           /\ A # B
           /\ last'.op = "Open" /\ last'.d = B /\ last'.c = c)
          => /\ Stacked(A, B, c)'
             /\ dialogs'[A].savedSubWidgetWidget = last.prior
       /\ (Stacked(A, B, c) /\ last'.op = "Close" /\ last'.d = B)
          => /\ Unstacked(A, B, c)'
             /\ child'[c] = dialogs[B].savedSubWidgetWidget
             /\ ovs'[child'[c]] = ovs[child'[c]]
             /\ dialogs'[A] = dialogs[A]
       /\ (Unstacked(A, B, c) /\ last'.op = "Close" /\ last'.d = A)
          => /\ child'[c] = dialogs[A].savedSubWidgetWidget
             /\ child'[c] = ovs[child[c]].bottom
             /\ ~dialogs'[A].open /\ ~dialogs'[B].open]_vars

\* d1 was closed after d2 had been closed from over it: c1 holds X again,
\* both are closed, and d2 still holds the overlay of d1 over X that it saved
C18_Witness ==
  /\ last.op = "Close"
  /\ last.d = "d1"
  /\ last.after = "other"
  /\ last.wasOpen
  /\ last.prior \in OvRefs
  /\ child["c1"] = "X"
  /\ ~dialogs["d1"].open /\ ~dialogs["d2"].open
  /\ dialogs["d1"].savedContainer = "c1" /\ dialogs["d2"].savedContainer = "c1"
  /\ dialogs["d2"].savedSubWidgetWidget = last.prior
  /\ ovs[last.prior].top = "d1"
  /\ ovs[last.prior].bottom = "X"

\* the dialogs drawn in container c: the top layers of the overlay c holds
\* and of the overlays beneath it
Displayed(c) == {ovs[r].top : r \in Reach(Cur, {child[c]}) \cap OvRefs}

\* C19: a dialog that is closed is never displayed: it is not the top layer
\* of the overlay a container holds nor of any overlay beneath that one.
C19_ClosedNotDisplayed ==
  \A d \in Dialogs, c \in Containers :
    (dialogs[d].built /\ ~dialogs[d].open) => d \notin Displayed(c)

\* C20: whenever the dialog is open and the Maximizer says Maxed, the width
\* and the height of the dialog's live overlay are both ratio 1.0.
C20_MaxedMeansMaximized ==
  \A d \in Dialogs :
    (dialogs[d].open /\ maximizer.Maxed) =>
      /\ LiveOverlay(Cur, d) # Nil
      /\ Width(Cur, d) = RenderWithRatio1
      /\ Height(Cur, d) = RenderWithRatio1
====
